---------------------------- MODULE Spec2Model ----------------------------
(***************************************************************************)
(* A model of pdf_to_recipe.py: the batch driver (process_all), the        *)
(* document processor (process_pdf) and the five-action pipeline           *)
(* (analyze_images_with_actions) over a directory of files.                *)
(*                                                                         *)
(* Strings are sequences of one-character strings.  A file name is a       *)
(* record [stem, ext]; the directory is a function from the names present  *)
(* to what each file holds.  A model response is a sequence of tokens: a   *)
(* character, a brace or bracket, a line break, or one JSON member or      *)
(* array item; json.loads is the well-formedness test of a token slice.    *)
(***************************************************************************)
EXTENDS Integers, Sequences, FiniteSets, TLC

\* ------------------------------------------------------------- bounds
\* A document has between 1 and MaxPages pages.
MaxPages == 3
\* The short titles given to make_unix_safe_filename have up to MaxTitleLen
\* characters.
MaxTitleLen == 3
\* At most MaxOverridden of the four actions are given command line options
\* of their own.
MaxOverridden == 2

\* ------------------------------------------------------------ strings
\* safe_name[:50]
SlugLimit == 50

UpperChars == <<"A", "B", "S">>
LowerChars == <<"a", "b", "s">>
OtherLower == {"c", "d", "e", "g", "i", "k", "l", "n", "o", "p", "r", "t", "u", "w"}
DigitChars == <<"1", "2", "3", "4", "5", "6", "7", "8", "9">>

Range(s) == {s[i] : i \in 1..Len(s)}

\* \w of the regular expression: letters, digits and the underscore.
IsWordChar(c) ==
    c \in Range(UpperChars) \cup Range(LowerChars) \cup OtherLower
          \cup Range(DigitChars) \cup {"_"}

\* \s of the regular expression, and what str.strip() removes.
IsSpace(c) == c \in {" ", "\n"}

\* str.lower() on one character.
LowerChar(c) ==
    IF \E i \in 1..Len(UpperChars) : UpperChars[i] = c
    THEN LowerChars[CHOOSE i \in 1..Len(UpperChars) : UpperChars[i] = c]
    ELSE c

RECURSIVE LStrip(_, _)
LStrip(s, drop) ==
    IF s # <<>> /\ Head(s) \in drop THEN LStrip(Tail(s), drop) ELSE s

RECURSIVE RStrip(_, _)
RStrip(s, drop) ==
    IF s # <<>> /\ s[Len(s)] \in drop
    THEN RStrip(SubSeq(s, 1, Len(s) - 1), drop)
    ELSE s

\* str.strip(): whitespace at both ends.
StripSpace(s) == RStrip(LStrip(s, {" ", "\n"}), {" ", "\n"})

\* re.sub(r'[^\w\s-]', '', s)
RECURSIVE RemoveProblematic(_)
RemoveProblematic(s) ==
    IF s = <<>> THEN <<>>
    ELSE IF IsWordChar(Head(s)) \/ IsSpace(Head(s)) \/ Head(s) = "-"
         THEN <<Head(s)>> \o RemoveProblematic(Tail(s))
         ELSE RemoveProblematic(Tail(s))

\* re.sub(r'\s+', '_', s): every maximal run of whitespace becomes one "_".
RECURSIVE CollapseWhitespace(_)
CollapseWhitespace(s) ==
    IF s = <<>> THEN <<>>
    ELSE IF IsSpace(Head(s))
         THEN <<"_">> \o CollapseWhitespace(LStrip(s, {" ", "\n"}))
         ELSE <<Head(s)>> \o CollapseWhitespace(Tail(s))

ToLower(s) == [i \in 1..Len(s) |-> LowerChar(s[i])]

Truncate(s, n) == SubSeq(s, 1, IF Len(s) < n THEN Len(s) ELSE n)

UnknownRecipe ==
    <<"u", "n", "k", "n", "o", "w", "n", "_", "r", "e", "c", "i", "p", "e">>

make_unix_safe_filename(title) ==
    IF title = <<>> THEN UnknownRecipe
    ELSE LET removed   == RemoveProblematic(StripSpace(title))
             collapsed == CollapseWhitespace(removed)
             safe_name == ToLower(RStrip(LStrip(collapsed, {"_"}), {"_"}))
         IN  IF safe_name = <<>> THEN UnknownRecipe
             ELSE Truncate(safe_name, SlugLimit)

\* ------------------------------------------------------- optional values
\* Python's None, and a value that is not None.
None == [none |-> TRUE]
Just(v) == [val |-> v]

\* "not x" for an optional string, list or dict held as a sequence.
Falsy(x) == x = None \/ x.val = <<>>

\* --------------------------------------------------------- file system
PathOf(stem, ext) == [stem |-> stem, ext |-> ext]

\* What a file holds: the source of a document, one rasterized page of it,
\* a crop of a page, or a record.  run is the batch iteration that wrote it.
PdfFile(doc) ==
    [kind |-> "pdf", doc |-> doc, page |-> 0, run |-> 0, region |-> "none"]
PageFile(doc, page, run) ==
    [kind |-> "page", doc |-> doc, page |-> page, run |-> run, region |-> "none"]
CropFile(src, region, run) ==
    [kind |-> "crop", doc |-> src.doc, page |-> src.page, run |-> run,
     region |-> region]
JsonFile(doc, run) ==
    [kind |-> "json", doc |-> doc, page |-> 0, run |-> run, region |-> "none"]

Exists(d, path) == path \in DOMAIN d

\* open(path, 'w') / image.save(path): creates or overwrites.
WriteFile(d, path, data) ==
    [p \in DOMAIN d \cup {path} |-> IF p = path THEN data ELSE d[p]]

\* Path.unlink(missing_ok=True)
Unlink(d, path) == [p \in DOMAIN d \ {path} |-> d[p]]

\* Path.rename on POSIX: replaces an existing target; the same name is a no-op.
RenameFile(d, src, dst) ==
    IF src = dst THEN d ELSE Unlink(WriteFile(d, dst, d[src]), src)

IsPrefix(s, t) == Len(s) <= Len(t) /\ SubSeq(t, 1, Len(s)) = s


\* ------------------------------------------------------ model responses
\* One token of a response: k is its kind, v its value, s its characters.
Chr(c) == [k |-> "c", v |-> c, s |-> <<c>>]
LBrace == [k |-> "{", v |-> "{", s |-> <<"{">>]
RBrace == [k |-> "}", v |-> "}", s |-> <<"}">>]
LBracket == [k |-> "[", v |-> "[", s |-> <<"[">>]
RBracket == [k |-> "]", v |-> "]", s |-> <<"]">>]
NewLine == [k |-> "c", v |-> "\n", s |-> <<"\n">>]
\* "key": value, one member of a JSON object.
Member(key, keyChars, value, valueChars) ==
    [k |-> "member", v |-> [key |-> key, value |-> value],
     s |-> <<"'">> \o keyChars \o <<"'", ":", "'">> \o valueChars \o <<"'">>]
\* One element of a JSON array.
Item(value) == [k |-> "item", v |-> value, s |-> <<"i">>]

\* The characters of a response.
RECURSIVE Text(_)
Text(content) ==
    IF content = <<>> THEN <<>> ELSE Head(content).s \o Text(Tail(content))

\* response.choices[0].message.content.strip(), on tokens.
RECURSIVE StripContent(_)
StripContent(content) ==
    IF content # <<>> /\ Head(content).k = "c" /\ IsSpace(Head(content).v)
    THEN StripContent(Tail(content))
    ELSE IF content # <<>> /\ content[Len(content)].k = "c"
                           /\ IsSpace(content[Len(content)].v)
         THEN StripContent(SubSeq(content, 1, Len(content) - 1))
         ELSE content

\* str.find(ch): the 0-based index of the first ch, or -1.
find(content, ch) ==
    IF \E i \in 1..Len(content) : content[i].k = ch
    THEN (CHOOSE i \in 1..Len(content) :
              /\ content[i].k = ch
              /\ \A j \in 1..(i - 1) : content[j].k # ch) - 1
    ELSE -1

\* str.rfind(ch): the 0-based index of the last ch, or -1.
rfind(content, ch) ==
    IF \E i \in 1..Len(content) : content[i].k = ch
    THEN (CHOOSE i \in 1..Len(content) :
              /\ content[i].k = ch
              /\ \A j \in (i + 1)..Len(content) : content[j].k # ch) - 1
    ELSE -1

\* content[start_idx:end_idx] for indices that are not negative.
Slice(content, start_idx, end_idx) == SubSeq(content, start_idx + 1, end_idx)

\* json.loads on a slice: the value, or a JSONDecodeError.  An object is
\* "{" members "}" and an array is "[" items "]"; anything else does not parse.
JsonDecodeError == [error |-> TRUE]
json_loads(json_str) ==
    LET n == Len(json_str)
        inner == SubSeq(json_str, 2, n - 1)
    IN  IF /\ n >= 2 /\ json_str[1].k = "{" /\ json_str[n].k = "}"
           /\ \A i \in 1..Len(inner) : inner[i].k = "member"
        THEN [error |-> FALSE, val |-> [i \in 1..Len(inner) |-> inner[i].v]]
        ELSE IF /\ n >= 2 /\ json_str[1].k = "[" /\ json_str[n].k = "]"
                /\ \A i \in 1..Len(inner) : inner[i].k = "item"
             THEN [error |-> FALSE, val |-> [i \in 1..Len(inner) |-> inner[i].v]]
             ELSE JsonDecodeError

\* key in d, and d.get(key, default), for a parsed object.
HasKey(d, key) == \E i \in 1..Len(d) : d[i].key = key
Get(d, key, default) ==
    IF HasKey(d, key)
    THEN d[CHOOSE i \in 1..Len(d) :
               d[i].key = key /\ \A j \in (i + 1)..Len(d) : d[j].key # key].value
    ELSE default

KeyTitle == <<"t", "i", "t", "l", "e">>
KeyOther == <<"k">>
TagList(items) == [isList |-> TRUE, items |-> items]
NotAList == [isList |-> FALSE, items |-> <<>>]

\* What the model may answer in Action 1.
Responses1 == <<
    \* the call fails
    [raises |-> TRUE, content |-> <<>>],
    \* whitespace only
    [raises |-> FALSE, content |-> <<Chr(" ")>>],
    \* an object: title So, description d, category Lunch, tags quick and ''
    [raises |-> FALSE, content |->
        <<LBrace, Member("title", KeyTitle, <<"S", "o">>, <<"S", "o">>),
          Member("description", KeyOther, <<"d">>, <<"d">>),
          Member("category", KeyOther, "Lunch", <<"L">>),
          Member("tags", KeyOther, TagList(<<"quick", "">>), <<"q">>), RBrace>>],
    \* prose around an object: title So, category lunch, tags not a list
    [raises |-> FALSE, content |->
        <<Chr("x"), LBrace, Member("title", KeyTitle, <<"S", "o">>, <<"S", "o">>),
          Member("category", KeyOther, "lunch", <<"l">>),
          Member("tags", KeyOther, NotAList, <<"q">>), RBrace, Chr(".")>>],
    \* an object with no title, only category Lunch
    [raises |-> FALSE, content |->
        <<LBrace, Member("category", KeyOther, "Lunch", <<"L">>), RBrace>>],
    \* no JSON at all: A b!
    [raises |-> FALSE, content |-> <<Chr("A"), Chr(" "), Chr("b"), Chr("!")>>],
    \* an object that is never closed: {So
    [raises |-> FALSE, content |-> <<LBrace, Chr("S"), Chr("o")>>],
    \* an object with a title and nothing else: title So
    [raises |-> FALSE, content |->
        <<LBrace, Member("title", KeyTitle, <<"S", "o">>, <<"S", "o">>), RBrace>>],
    \* an object whose category is not a string: title So, category null (held
    \* as the text of the literal: like any value outside the list, it is
    \* compared with the valid categories and found different)
    [raises |-> FALSE, content |->
        <<LBrace, Member("title", KeyTitle, <<"S", "o">>, <<"S", "o">>),
          Member("category", KeyOther, "null", <<"n">>), RBrace>>] >>

Box(left, top, right, bottom) ==
    [left |-> left, top |-> top, right |-> right, bottom |-> bottom]
GoodBox == Box(0, 0, 10, 10)

\* What the model may answer in Action 2.
Responses2 == <<
    [raises |-> TRUE, content |-> <<>>],
    \* no JSON at all
    [raises |-> FALSE, content |-> <<Chr("x")>>],
    \* malformed: {x}
    [raises |-> FALSE, content |-> <<LBrace, Chr("x"), RBrace>>],
    \* the empty object
    [raises |-> FALSE, content |-> <<LBrace, RBrace>>],
    \* both boxes, fenced
    [raises |-> FALSE, content |->
        <<Chr("#"), LBrace, Member("ingredients", KeyOther, GoodBox, <<"b">>),
          Member("instructions", KeyOther, Box(0, 20, 10, 30), <<"b">>),
          RBrace, Chr("#")>>],
    \* only the ingredients box
    [raises |-> FALSE, content |->
        <<LBrace, Member("ingredients", KeyOther, GoodBox, <<"b">>), RBrace>>],
    \* instructions box with right < left
    [raises |-> FALSE, content |->
        <<LBrace, Member("ingredients", KeyOther, GoodBox, <<"b">>),
          Member("instructions", KeyOther, Box(8, 0, 5, 10), <<"b">>), RBrace>>],
    \* ingredients box with bottom = top
    [raises |-> FALSE, content |->
        <<LBrace, Member("ingredients", KeyOther, Box(0, 4, 10, 4), <<"b">>),
          Member("instructions", KeyOther, GoodBox, <<"b">>), RBrace>>] >>

\* What the model may answer in Action 3.
Responses3 == <<
    [raises |-> TRUE, content |-> <<>>],
    \* whitespace only
    [raises |-> FALSE, content |-> <<Chr(" "), NewLine>>],
    \* two steps and a blank line between them
    [raises |-> FALSE, content |->
        <<Chr("a"), NewLine, Chr(" "), NewLine, Chr("b"), Chr(" ")>>] >>

Flour == [name |-> "flour", quantity |-> "1/2", unit |-> "cup", optional |-> FALSE]

\* What the model may answer in Action 4.
Responses4 == <<
    [raises |-> TRUE, content |-> <<>>],
    \* no array
    [raises |-> FALSE, content |-> <<Chr("x")>>],
    \* malformed: [x]
    [raises |-> FALSE, content |-> <<LBracket, Chr("x"), RBracket>>],
    \* the empty array
    [raises |-> FALSE, content |-> <<LBracket, RBracket>>],
    \* one ingredient, in prose
    [raises |-> FALSE, content |->
        <<Chr("x"), LBracket, Item(Flour), RBracket>>] >>


\* ------------------------------------------------------------------ state
\* ----------------------------------------------------------- configuration
\* The actions that call the model, and the fields of an OpenAIConfig.
ActionNumbers == 1..4
Fields == {"api_key", "base_url", "model"}

OpenAIConfig(api_key, base_url, model) ==
    [api_key |-> api_key, base_url |-> base_url, model |-> model]

\* The defaults of --api-key, --base-url and --model, and other values for them.
DefaultArgs == OpenAIConfig("ollama", "http://localhost:11434/v1", "gemma3:12b")
CustomArgs == OpenAIConfig("key0", "url0", "model0")

\* --actionK-api-key, --actionK-base-url and --actionK-model all absent.
NoOverride == [f \in Fields |-> [none |-> TRUE]]

\* The value given for a field of action k, different for every k and field.
GivenValues ==
    [api_key |-> <<"key1", "key2", "key3", "key4">>,
     base_url |-> <<"url1", "url2", "url3", "url4">>,
     model |-> <<"model1", "model2", "model3", "model4">>]

\* How an option of an action comes from the command line: not at all, with
\* the empty string, or with a value.
Shapes == [Fields -> {"absent", "empty", "given"}] \ {[f \in Fields |-> "absent"]}
OverrideOf(shape, k) ==
    [f \in Fields |->
        CASE shape[f] = "absent" -> [none |-> TRUE]
          [] shape[f] = "empty" -> [val |-> ""]
          [] OTHER -> [val |-> GivenValues[f][k]]]

\* What parse_args returns: the three default options and, per action, its
\* three options, None when absent.
Args(defaults, S, shapes) ==
    [api_key |-> defaults.api_key, base_url |-> defaults.base_url,
     model |-> defaults.model,
     action |-> [k \in ActionNumbers |->
                    IF k \in S THEN OverrideOf(shapes[k], k) ELSE NoOverride]]

\* Truth of an optional string: None and "" are false.
ArgTruthy(x) == x # [none |-> TRUE] /\ x.val # ""

\* x or default
ArgOr(x, default) == IF ArgTruthy(x) THEN x.val ELSE default

\* any([args.actionK_api_key, args.actionK_base_url, args.actionK_model])
AnyGiven(o) == \E f \in Fields : ArgTruthy(o[f])

\* The OpenAIConfig main builds for action k (lines 869-873 and the like).
ActionConfig(a, k) ==
    OpenAIConfig(ArgOr(a.action[k].api_key, a.api_key),
                 ArgOr(a.action[k].base_url, a.base_url),
                 ArgOr(a.action[k].model, a.model))

\* action_configs as main fills it: an entry for the actions with an option.
BuildActionConfigs(a) ==
    [k \in {j \in ActionNumbers : AnyGiven(a.action[j])} |-> ActionConfig(a, k)]

\* Variant of the lookup below that always returns the default.
get_default_config(configs, default, action_number) == default

\* return self.action_configs.get(action_number, self.default_config)
get_config_for_action(configs, default, action_number) ==
    IF action_number \in DOMAIN configs THEN configs[action_number] ELSE default

VARIABLES
    dir,              \* the directory: file name -> what the file holds
    pages,            \* document -> the number of pages of its PDF
    max_action,       \* self.max_action, 0 for None
    skip_action2,     \* self.skip_action2
    pc,               \* where process_all is
    unprocessed_pdfs, \* process_all: the list it iterates over
    idx,              \* process_all: position in unprocessed_pdfs
    successful,       \* process_all: counter
    failed,           \* process_all: counter
    pdf_path,         \* process_pdf: its argument
    image_paths,      \* process_pdf: what convert_pdf_to_images returned
    title,            \* analyze_images_with_actions: locals
    description,
    category,
    tags,
    renamed_image_paths,
    updated_pdf_path,
    safe_name,
    ingredients_image_path,
    instructions_image_path,
    instructions,
    ingredients,
    recipe_json,      \* process_pdf: the record, once Action 5 has built it
    outcome,          \* what process_pdf did: "True", "False" or "raise"
    doc,              \* history: the document whose PDF was rasterized
    invoked,          \* history: the actions entered for this document
    calls,            \* history: the model calls made for this document
    last_response,    \* history: the last model call's action and the index of its answer
    rename_failed,    \* history: a rename raised in Action 1
    aborted_by,       \* history: why analyze_images_with_actions returned None
    args,             \* main: what parse_args returned
    default_config,   \* self.default_config, None before main built it
    action_configs,   \* self.action_configs
    resolved          \* history: the last _get_config_for_action call and its result

clients == <<args, default_config, action_configs, resolved>>
config == <<pages, max_action, skip_action2, clients>>
batch == <<unprocessed_pdfs, idx, successful, failed>>
locals ==
    <<title, description, category, tags, renamed_image_paths, updated_pdf_path,
      safe_name, ingredients_image_path, instructions_image_path, instructions,
      ingredients, recipe_json>>
history == <<doc, invoked, calls, last_response, rename_failed, aborted_by>>
vars == <<dir, config, pc, batch, pdf_path, image_paths, locals, outcome, history>>

\* The stems of the PDFs the directory starts with, document d under
\* InitialStems[d]: the first is a prefix of the second, and the second is
\* the name Action 1 derives from the answer "A b!".
InitialStems == << <<"a">>, <<"a", "_", "b">> >>
Docs == 1..Len(InitialStems)

NoResponse == [action |-> 0, index |-> 0]

Init ==
    /\ dir = [p \in {PathOf(InitialStems[d], "pdf") : d \in Docs} |->
                 PdfFile(CHOOSE d \in Docs : InitialStems[d] = p.stem)]
    /\ pages \in [Docs -> 1..MaxPages]
    /\ max_action \in 0..5
    /\ skip_action2 \in BOOLEAN
    /\ pc = "find_unprocessed_pdfs"
    /\ unprocessed_pdfs = <<>>
    /\ idx = 1
    /\ successful = 0
    /\ failed = 0
    /\ pdf_path = None
    /\ image_paths = <<>>
    /\ title = None
    /\ description = None
    /\ category = None
    /\ tags = None
    /\ renamed_image_paths = <<>>
    /\ updated_pdf_path = None
    /\ safe_name = <<>>
    /\ ingredients_image_path = None
    /\ instructions_image_path = None
    /\ instructions = None
    /\ ingredients = None
    /\ recipe_json = None
    /\ outcome = "none"
    /\ doc = 0
    /\ invoked = {}
    /\ calls = <<>>
    /\ last_response = NoResponse
    /\ rename_failed = FALSE
    /\ aborted_by = "none"
    /\ args = Args(DefaultArgs, {}, <<>>)
    /\ default_config = Just(DefaultArgs)
    /\ action_configs = BuildActionConfigs(args)
    /\ resolved = None

\* ------------------------------------------------- find_unprocessed_pdfs
\* any(self.directory.glob(f"{base_name}*.jpg"))
has_jpg(d, base_name) ==
    \E p \in DOMAIN d : p.ext = "jpg" /\ IsPrefix(base_name, p.stem)

\* (self.directory / f"{base_name}.json").exists()
has_json(d, base_name) == Exists(d, PathOf(base_name, "json"))

\* The PDFs find_unprocessed_pdfs returns, as a set.
find_unprocessed_pdfs(d) ==
    {p \in DOMAIN d :
        p.ext = "pdf" /\ ~(has_jpg(d, p.stem) \/ has_json(d, p.stem))}

\* The orders glob may list the paths of S in: the file system's, any.
Orders(S) ==
    {q \in [1..Cardinality(S) -> S] : \A i, j \in DOMAIN q : q[i] = q[j] => i = j}

\* process_all up to its loop (lines 707-722).
FindUnprocessedPdfs ==
    /\ pc = "find_unprocessed_pdfs"
    /\ \E q \in Orders(find_unprocessed_pdfs(dir)) :
          /\ unprocessed_pdfs' = q
          /\ pc' = IF q = <<>> THEN "done" ELSE "process_pdf"
    /\ UNCHANGED <<dir, config, idx, successful, failed, pdf_path, image_paths,
                   locals, outcome, history>>

\* ------------------------------------------------- convert_pdf_to_images
\* The name of page i of n: one page gives base.jpg, more give base_page{i}.jpg.
PageSuffix(i) == <<"_", "p", "a", "g", "e", DigitChars[i]>>
\* Variant of the name below that numbers the page of a one-page document too.
ImageNamePaged(base_name, n, i) == PathOf(base_name \o PageSuffix(i), "jpg")

ImageName(base_name, n, i) ==
    IF n = 1 THEN PathOf(base_name, "jpg")
    ELSE PathOf(base_name \o PageSuffix(i), "jpg")

\* The directory after pages 1..saved of n have been saved.
SavePages(d, base_name, document, n, saved, run) ==
    LET new == {ImageName(base_name, n, i) : i \in 1..saved}
    IN  [p \in DOMAIN d \cup new |->
            IF p \in new
            THEN PageFile(document, CHOOSE i \in 1..saved :
                                        ImageName(base_name, n, i) = p, run)
            ELSE d[p]]

\* convert_pdf_to_images: failAt = 0 is success; failAt = k is an exception
\* before page k is saved (k = 1 also stands for convert_from_path raising).
convert_pdf_to_images(d, path, n, failAt, run) ==
    IF failAt = 0
    THEN [image_paths |-> [i \in 1..n |-> ImageName(path.stem, n, i)],
          dir |-> SavePages(d, path.stem, d[path].doc, n, n, run)]
    ELSE [image_paths |-> <<>>,
          dir |-> SavePages(d, path.stem, d[path].doc, n, failAt - 1, run)]

\* process_pdf up to the call of analyze_images_with_actions.  The PDF is
\* there: only a document's own Action 1 moves its PDF away, and a rename
\* onto a listed name leaves a PDF under that name.
ProcessPdf ==
    /\ pc = "process_pdf"
    /\ Exists(dir, unprocessed_pdfs[idx])
    /\ LET path == unprocessed_pdfs[idx]
           n == pages[dir[path].doc]
       IN  \E failAt \in 0..n :
              \E r \in {convert_pdf_to_images(dir, path, n, failAt, idx)} :
                  /\ pdf_path' = path
                  /\ doc' = dir[path].doc
                  /\ dir' = r.dir
                  /\ image_paths' = r.image_paths
                  /\ outcome' = IF r.image_paths = <<>> THEN "False" ELSE "none"
                  /\ pc' = IF r.image_paths = <<>> THEN "tally" ELSE "action_1"
    /\ UNCHANGED <<config, batch, locals, invoked, calls, last_response, rename_failed,
                   aborted_by>>


\* ---------------------------------------------- action_1_extract_meal_title
valid_categories == {"Breakfast", "Lunch", "Dinner", "Snack", "Dessert", "Appetizer"}

\* Variant of the validation below that keeps whatever the model returned.
ValidateCategoryKeep(c) == c

\* if category not in valid_categories: category = "Dinner"
ValidateCategory(c) == IF c \notin valid_categories THEN "Dinner" ELSE c

RECURSIVE Truthy(_)
Truthy(items) ==
    IF items = <<>> THEN <<>>
    ELSE IF Head(items) # "" THEN <<Head(items)>> \o Truthy(Tail(items))
         ELSE Truthy(Tail(items))

\* if not isinstance(tags, list): tags = []; then the empty tags are dropped.
ValidateTags(t) == IF ~t.isList THEN <<>> ELSE Truthy(t.items)

\* What Action 1 takes when the response holds no JSON object it can parse.
TitleFallback(content) ==
    [title |-> Text(content), description |-> <<>>, category |-> "Dinner",
     tags |-> TagList(<<>>)]

\* Lines 218-250: the fields read from the response text.
ParseTitle(content) ==
    LET start_idx == find(content, "{")
        end_idx == rfind(content, "}") + 1
    IN  IF start_idx # -1 /\ end_idx # -1
        THEN LET parsed_data == json_loads(Slice(content, start_idx, end_idx))
             IN  IF parsed_data.error THEN TitleFallback(content)
                 ELSE [title |-> Get(parsed_data.val, "title", <<>>),
                       description |-> Get(parsed_data.val, "description", <<>>),
                       category |-> Get(parsed_data.val, "category", ""),
                       tags |-> Get(parsed_data.val, "tags", TagList(<<>>))]
        ELSE TitleFallback(content)

\* Lines 196-263: None when the call raised, the text is empty or there is no
\* title; otherwise the validated fields.
ExtractMealTitle(response) ==
    IF response.raises THEN None
    ELSE LET content == StripContent(response.content)
         IN  IF content = <<>> THEN None
             ELSE LET f == ParseTitle(content)
                  IN  IF f.title = <<>> THEN None
                      ELSE Just([title |-> f.title,
                                 description |-> f.description,
                                 category |-> ValidateCategory(f.category),
                                 tags |-> ValidateTags(f.tags)])

\* The renames of lines 268-284, in order: the PDF unless its name is already
\* the new one, then every image.
RenameOps(pdf, imgs, name) ==
    (IF pdf # PathOf(name, "pdf")
     THEN <<[src |-> pdf, dst |-> PathOf(name, "pdf")]>> ELSE <<>>)
    \o [i \in 1..Len(imgs) |-> [src |-> imgs[i], dst |-> ImageName(name, Len(imgs), i)]]

\* The directory after the renames ops[k..]; the failAt-th raises, and so does
\* one whose source is gone.  The renames before the one that raises stay.
RECURSIVE RenameAll(_, _, _, _)
RenameAll(d, ops, k, failAt) ==
    IF k > Len(ops) THEN [dir |-> d, raised |-> FALSE]
    ELSE IF k = failAt \/ ~Exists(d, ops[k].src) THEN [dir |-> d, raised |-> TRUE]
         ELSE RenameAll(RenameFile(d, ops[k].src, ops[k].dst), ops, k + 1, failAt)

\* What action_1_extract_meal_title returns after an exception or without a
\* title (lines 220, 253, 290): the paths it was given.
Action1Failure(d, imgs, pdf, raised) ==
    [title |-> None, description |-> None, category |-> None, tags |-> None,
     image_paths |-> imgs, pdf_path |-> pdf, dir |-> d, rename_failed |-> raised]

\* action_1_extract_meal_title from the model call on.
action_1_extract_meal_title(d, imgs, pdf, response, failAt) ==
    LET m == ExtractMealTitle(response)
    IN  IF m = None THEN Action1Failure(d, imgs, pdf, FALSE)
        ELSE LET name == make_unix_safe_filename(m.val.title)
                 r == RenameAll(d, RenameOps(pdf, imgs, name), 1, failAt)
             IN  IF r.raised THEN Action1Failure(r.dir, imgs, pdf, TRUE)
                 ELSE [title |-> Just(m.val.title),
                       description |-> Just(m.val.description),
                       category |-> Just(m.val.category),
                       tags |-> Just(m.val.tags),
                       image_paths |->
                           [i \in 1..Len(imgs) |-> ImageName(name, Len(imgs), i)],
                       pdf_path |-> PathOf(name, "pdf"),
                       dir |-> r.dir, rename_failed |-> FALSE]

\* How many renames Action 1 attempts for this response.
RenameCount(imgs, pdf, response) ==
    LET m == ExtractMealTitle(response)
    IN  IF m = None THEN 0
        ELSE Len(RenameOps(pdf, imgs, make_unix_safe_filename(m.val.title)))

\* Variant of the test below that halts one action late: max_action < n - 1.
MaxActionBelowLate(n) == max_action # 0 /\ max_action < n - 1

\* if self.max_action and self.max_action < n
MaxActionBelow(n) == max_action # 0 /\ max_action < n

\* The image Actions 1 reads: image_paths[0].
FirstImage(imgs) == imgs[1]

\* The image Actions 2, 3, 4 and the cropper read: the second if there is one.
SourceImage(imgs) == IF Len(imgs) >= 2 THEN imgs[2] ELSE imgs[1]

\* One model call, as the history keeps it: the action, the file read and
\* what the file held.
Call(action, path) == [action |-> action, path |-> path, data |-> dir[path]]

\* ----------------------------------------------------- leaving process_pdf
\* for img_path in image_paths: img_path.unlink(missing_ok=True)
RECURSIVE UnlinkAll(_, _)
UnlinkAll(d, paths) ==
    IF paths = <<>> THEN d ELSE UnlinkAll(Unlink(d, Head(paths)), Tail(paths))

\* Variant of the choice below that unlinks the images under their new names.
CleanupRenamed(created, renamed) == renamed

\* The paths process_pdf unlinks when the pipeline gave no record: the ones
\* convert_pdf_to_images returned.
CleanupPaths(created, renamed) == created

\* analyze_images_with_actions returns None with the directory d: lines
\* 687-692 of process_pdf unlink the images and return False.
ReturnNone(d, why) ==
    /\ dir' = UnlinkAll(d, CleanupPaths(image_paths, renamed_image_paths))
    /\ aborted_by' = why
    /\ outcome' = "False"
    /\ pc' = "tally"

\* Variant of the step below that enters the same action again.
GoOnAgain(d, next) ==
    /\ dir' = d
    /\ aborted_by' = aborted_by
    /\ outcome' = outcome
    /\ pc' = pc

\* The pipeline goes on to the next action with the directory d.
GoOn(d, next) ==
    /\ dir' = d
    /\ aborted_by' = aborted_by
    /\ outcome' = outcome
    /\ pc' = next

\* The check before Action n: if self.max_action and self.max_action < n:
\* return None.
Proceed(d, n, next) ==
    IF MaxActionBelow(n) THEN ReturnNone(d, "max_action") ELSE GoOn(d, next)

\* Variant of the step below in which the exception leaves process_all too.
RaiseUncaught ==
    /\ dir' = dir
    /\ aborted_by' = aborted_by
    /\ outcome' = "raise"
    /\ pc' = "done"

\* An exception leaves process_pdf: process_all catches it (lines 730-732).
Raise ==
    /\ dir' = dir
    /\ aborted_by' = aborted_by
    /\ outcome' = "raise"
    /\ pc' = "tally"

\* Lines 585-606 of analyze_images_with_actions.
Action1 ==
    /\ pc = "action_1"
    /\ invoked' = invoked \cup {1}
    /\ IF ~Exists(dir, FirstImage(image_paths))
       THEN /\ Raise
            /\ UNCHANGED <<title, description, category, tags,
                           renamed_image_paths, updated_pdf_path, safe_name,
                           calls, last_response, rename_failed>>
       ELSE \E i \in 1..Len(Responses1) :
            \E failAt \in 0..RenameCount(image_paths, pdf_path, Responses1[i]) :
            \E r \in {action_1_extract_meal_title(dir, image_paths, pdf_path,
                                                  Responses1[i], failAt)} :
                  /\ calls' = Append(calls, Call(1, FirstImage(image_paths)))
                  /\ last_response' = [action |-> 1, index |-> i]
                  /\ rename_failed' = r.rename_failed
                  /\ title' = r.title
                  /\ renamed_image_paths' = r.image_paths
                  /\ IF Falsy(r.title)
                     THEN /\ safe_name' = pdf_path.stem
                          /\ description' = Just(<<>>)
                          /\ category' = Just("Dinner")
                          /\ tags' = Just(<<>>)
                          /\ updated_pdf_path' = pdf_path
                     ELSE /\ safe_name' = make_unix_safe_filename(r.title.val)
                          /\ description' = r.description
                          /\ category' = r.category
                          /\ tags' = r.tags
                          /\ updated_pdf_path' = r.pdf_path
                  /\ Proceed(r.dir, 2, "action_2")
    /\ UNCHANGED <<config, batch, pdf_path, image_paths, ingredients_image_path,
                   instructions_image_path, instructions, ingredients,
                   recipe_json, doc>>

\* ------------------------------------------- action_2_detect_bounding_boxes
\* Lines 333-371: the parsed object, or None after any exception or when the
\* text has no "{".
action_2_detect_bounding_boxes(response) ==
    IF response.raises THEN None
    ELSE LET content == StripContent(response.content)
             start_idx == find(content, "{")
             end_idx == rfind(content, "}") + 1
         IN  IF start_idx # -1 /\ end_idx # -1
             THEN LET bounding_boxes == json_loads(Slice(content, start_idx, end_idx))
                  IN  IF bounding_boxes.error THEN None
                      ELSE Just(bounding_boxes.val)
             ELSE None

\* img.crop(...) followed by save(..., 'JPEG') raises: a coordinate is missing
\* (KeyError), the box is inverted (crop raises ValueError) or it is empty (an
\* empty image cannot be written as JPEG).
CropRaises(bbox) ==
    \/ ~({"left", "top", "right", "bottom"} \subseteq DOMAIN bbox)
    \/ bbox.right <= bbox.left
    \/ bbox.bottom <= bbox.top

CropName(name, region) ==
    PathOf(name \o <<"_">> \o region, "jpg")
IngredientsChars == <<"i", "n", "g", "r", "e", "d", "i", "e", "n", "t", "s">>
InstructionsChars == <<"i", "n", "s", "t", "r", "u", "c", "t", "i", "o", "n", "s">>

\* crop_images_from_bounding_boxes: the ingredients crop is cut and saved
\* first, then the instructions crop; any exception gives (None, None) and
\* leaves what was already saved.
crop_images_from_bounding_boxes(d, imgs, bounding_boxes, name, run) ==
    LET source == SourceImage(imgs)
        ingredients_path == CropName(name, IngredientsChars)
        instructions_path == CropName(name, InstructionsChars)
        hasIng == HasKey(bounding_boxes, "ingredients")
        hasIns == HasKey(bounding_boxes, "instructions")
        failure(dd) == [ingredients |-> None, instructions |-> None, dir |-> dd]
    IN  IF ~Exists(d, source) THEN failure(d)
        ELSE IF hasIng /\ CropRaises(Get(bounding_boxes, "ingredients", None))
        THEN failure(d)
        ELSE LET d1 == IF hasIng
                       THEN WriteFile(d, ingredients_path,
                                      CropFile(d[source], "ingredients", run))
                       ELSE d
             IN  IF hasIns /\ CropRaises(Get(bounding_boxes, "instructions", None))
                 THEN failure(d1)
                 ELSE [ingredients |->
                           IF hasIng THEN Just(ingredients_path) ELSE None,
                       instructions |->
                           IF hasIns THEN Just(instructions_path) ELSE None,
                       dir |-> IF hasIns
                               THEN WriteFile(d1, instructions_path,
                                              CropFile(d[source], "instructions", run))
                               ELSE d1]

\* Variant of the test below that fails only when both crops are missing.
CropFailedBoth(ingredients_path, instructions_path) ==
    ingredients_path = None /\ instructions_path = None

\* if not ingredients_image_path or not instructions_image_path
CropFailed(ingredients_path, instructions_path) ==
    ingredients_path = None \/ instructions_path = None

\* Variant of the test below that ignores the flag.
Action2NeverSkipped == FALSE

\* if self.skip_action2
Action2Skipped == skip_action2

\* Lines 608-631 of analyze_images_with_actions.
Action2 ==
    /\ pc = "action_2"
    /\ IF Action2Skipped
       THEN /\ ingredients_image_path' = None
            /\ instructions_image_path' = None
            /\ Proceed(dir, 3, "action_3")
            /\ UNCHANGED <<invoked, calls, last_response>>
       ELSE /\ invoked' = invoked \cup {2}
            /\ IF ~Exists(dir, SourceImage(renamed_image_paths))
               THEN /\ Raise
                    /\ UNCHANGED <<ingredients_image_path, instructions_image_path,
                                   calls, last_response>>
               ELSE \E i \in 1..Len(Responses2) :
                    \E bounding_boxes \in {action_2_detect_bounding_boxes(Responses2[i])} :
                      /\ calls' = Append(calls, Call(2, SourceImage(renamed_image_paths)))
                      /\ last_response' = [action |-> 2, index |-> i]
                      /\ IF Falsy(bounding_boxes)
                         THEN /\ ReturnNone(dir, "action_2")
                              /\ UNCHANGED <<ingredients_image_path,
                                             instructions_image_path>>
                         ELSE \E c \in {crop_images_from_bounding_boxes(
                                            dir, renamed_image_paths,
                                            bounding_boxes.val, safe_name, idx)} :
                                  /\ ingredients_image_path' = c.ingredients
                                  /\ instructions_image_path' = c.instructions
                                  /\ IF CropFailed(c.ingredients, c.instructions)
                                     THEN ReturnNone(c.dir, "action_2")
                                     ELSE Proceed(c.dir, 3, "action_3")
    /\ UNCHANGED <<config, batch, pdf_path, image_paths, title, description,
                   category, tags, renamed_image_paths, updated_pdf_path, safe_name,
                   instructions, ingredients, recipe_json, doc, rename_failed>>

\* --------------------------------------------- action_3_extract_instructions
\* content.split('\n'), on characters.
RECURSIVE SplitLines(_, _)
SplitLines(text, line) ==
    IF text = <<>> THEN <<line>>
    ELSE IF Head(text) = "\n" THEN <<line>> \o SplitLines(Tail(text), <<>>)
         ELSE SplitLines(Tail(text), Append(line, Head(text)))

RECURSIVE StrippedLines(_)
StrippedLines(lines) ==
    IF lines = <<>> THEN <<>>
    ELSE IF StripSpace(Head(lines)) # <<>>
         THEN <<StripSpace(Head(lines))>> \o StrippedLines(Tail(lines))
         ELSE StrippedLines(Tail(lines))

\* Lines 429-458: the non-empty stripped lines, or None when there is none or
\* the call raised.
action_3_extract_instructions(response) ==
    IF response.raises THEN None
    ELSE LET content == StripSpace(Text(response.content))
             steps == StrippedLines(SplitLines(content, <<>>))
         IN  IF steps # <<>> THEN Just(steps) ELSE None

\* The image Action 3 sends to the model.
Action3Image(imgs, instructions_crop) == SourceImage(imgs)

\* Lines 633-642 of analyze_images_with_actions.
Action3 ==
    /\ pc = "action_3"
    /\ invoked' = invoked \cup {3}
    /\ LET image == Action3Image(renamed_image_paths, instructions_image_path)
       IN  IF ~Exists(dir, image)
           THEN /\ Raise
                /\ UNCHANGED <<instructions, calls, last_response>>
           ELSE \E i \in 1..Len(Responses3) :
                  /\ calls' = Append(calls, Call(3, image))
                  /\ last_response' = [action |-> 3, index |-> i]
                  /\ instructions' = action_3_extract_instructions(Responses3[i])
                  /\ Proceed(dir, 4, "action_4")
    /\ UNCHANGED <<config, batch, pdf_path, image_paths, title, description,
                   category, tags, renamed_image_paths, updated_pdf_path, safe_name,
                   ingredients_image_path, instructions_image_path, ingredients,
                   recipe_json, doc, rename_failed>>

\* ---------------------------------------------- action_4_extract_ingredients
\* Lines 512-550: the parsed array, or None after any exception or when the
\* text has no "[".
action_4_extract_ingredients(response) ==
    IF response.raises THEN None
    ELSE LET content == StripContent(response.content)
             start_idx == find(content, "[")
             end_idx == rfind(content, "]") + 1
         IN  IF start_idx # -1 /\ end_idx # -1
             THEN LET parsed == json_loads(Slice(content, start_idx, end_idx))
                  IN  IF parsed.error THEN None ELSE Just(parsed.val)
             ELSE None

\* The image Action 4 sends to the model.
Action4Image(imgs, ingredients_crop) == SourceImage(imgs)

\* Lines 644-653 of analyze_images_with_actions.
Action4 ==
    /\ pc = "action_4"
    /\ invoked' = invoked \cup {4}
    /\ LET image == Action4Image(renamed_image_paths, ingredients_image_path)
       IN  IF ~Exists(dir, image)
           THEN /\ Raise
                /\ UNCHANGED <<ingredients, calls, last_response>>
           ELSE \E i \in 1..Len(Responses4) :
                  /\ calls' = Append(calls, Call(4, image))
                  /\ last_response' = [action |-> 4, index |-> i]
                  /\ ingredients' = action_4_extract_ingredients(Responses4[i])
                  /\ Proceed(dir, 5, "action_5")
    /\ UNCHANGED <<config, batch, pdf_path, image_paths, title, description,
                   category, tags, renamed_image_paths, updated_pdf_path, safe_name,
                   ingredients_image_path, instructions_image_path, instructions,
                   recipe_json, doc, rename_failed>>

\* -------------------------------------------------- action_5_combine_outputs
\* Variant of the conditional below that keeps a missing value.
OrElseKeep(x, default) == IF x = None THEN x ELSE x.val

\* x if x else default
OrElse(x, default) == IF Falsy(x) THEN default ELSE x.val

\* Variant of the record below whose name is the title alone, empty when none
\* was recovered.
action_5_title_only(t, d, c, g, steps, items, imgs, pdf) ==
    [name |-> IF t = None THEN <<>> ELSE t.val,
     description |-> IF d = None THEN <<>> ELSE d.val,
     category |-> IF c = None \/ c.val = "" THEN "Dinner" ELSE c.val,
     images |-> [i \in 1..Len(imgs) |-> [src |-> imgs[i]]],
     ingredients |-> IF items = None THEN <<>> ELSE items.val,
     instructions |-> IF steps = None THEN <<>> ELSE steps.val,
     servings |-> 4,
     defaultDuration |-> 2,
     tags |-> IF g = None THEN <<>> ELSE g.val]

\* The recipe of lines 555-571; src holds the name after "./".
action_5_combine_outputs(t, d, c, g, steps, items, imgs, pdf) ==
    [name |-> OrElse(t, pdf.stem),
     description |-> OrElse(d, <<>>),
     category |-> IF c = None \/ c.val = "" THEN "Dinner" ELSE c.val,
     images |-> [i \in 1..Len(imgs) |-> [src |-> imgs[i]]],
     ingredients |-> OrElse(items, <<>>),
     instructions |-> OrElse(steps, <<>>),
     servings |-> 4,
     defaultDuration |-> 2,
     tags |-> OrElse(g, <<>>)]

\* Variant of the path below that ignores the document's name.
JsonPathUnknown(pdf) == PathOf(UnknownRecipe, "json")

\* json_path = self.directory / f"{pdf_path.stem}.json"
JsonPath(pdf) == PathOf(pdf.stem, "json")

\* save_recipe_json
save_recipe_json(d, pdf, document, run) ==
    WriteFile(d, JsonPath(pdf), JsonFile(document, run))

\* Lines 655-659 of analyze_images_with_actions and 694-703 of process_pdf.
Action5 ==
    /\ pc = "action_5"
    /\ invoked' = invoked \cup {5}
    /\ recipe_json' = Just(action_5_combine_outputs(
                               title, description, category, tags, instructions,
                               ingredients, renamed_image_paths, updated_pdf_path))
    /\ dir' = save_recipe_json(dir, updated_pdf_path, doc, idx)
    /\ outcome' = "True"
    /\ pc' = "tally"
    /\ UNCHANGED <<config, batch, pdf_path, image_paths, title, description,
                   category, tags, renamed_image_paths, updated_pdf_path, safe_name,
                   ingredients_image_path, instructions_image_path, instructions,
                   ingredients, doc, calls, last_response, rename_failed, aborted_by>>

\* ------------------------------------------------------ process_all, loop
\* Lines 724-733: count the document and go to the next; the locals of
\* process_pdf are gone.
Tally ==
    /\ pc = "tally"
    /\ successful' = IF outcome = "True" THEN successful + 1 ELSE successful
    /\ failed' = IF outcome = "True" THEN failed ELSE failed + 1
    /\ idx' = idx + 1
    /\ pc' = IF idx = Len(unprocessed_pdfs) THEN "done" ELSE "process_pdf"
    /\ pdf_path' = None
    /\ image_paths' = <<>>
    /\ title' = None
    /\ description' = None
    /\ category' = None
    /\ tags' = None
    /\ renamed_image_paths' = <<>>
    /\ updated_pdf_path' = None
    /\ safe_name' = <<>>
    /\ ingredients_image_path' = None
    /\ instructions_image_path' = None
    /\ instructions' = None
    /\ ingredients' = None
    /\ recipe_json' = None
    /\ outcome' = "none"
    /\ doc' = 0
    /\ invoked' = {}
    /\ calls' = <<>>
    /\ last_response' = NoResponse
    /\ rename_failed' = FALSE
    /\ aborted_by' = "none"
    /\ UNCHANGED <<dir, config, unprocessed_pdfs>>

Next ==
    \/ FindUnprocessedPdfs
    \/ ProcessPdf
    \/ Action1
    \/ Action2
    \/ Action3
    \/ Action4
    \/ Action5
    \/ Tally

Spec == Init /\ [][Next]_vars

\* process_all is one sequential loop that runs until its list is exhausted:
\* a step that can be taken is taken.
FairSpec == Spec /\ WF_vars(Next)


\* ------------------------------------------- make_unix_safe_filename alone
\* The characters of the titles: a capital, a lower-case letter, a digit, the
\* hyphen, the space, a punctuation mark and the underscore.
TitleChars == {"A", "b", "1", "-", " ", "!", "_"}

\* Every title of up to MaxTitleLen characters.
ShortTitles == UNION {[1..n -> TitleChars] : n \in 0..MaxTitleLen}

\* Titles around the length limit, with a letter, a space or a hyphen where
\* the slug is cut.
LongTitles ==
    {[i \in 1..n |-> IF i = SlugLimit THEN c ELSE "b"] :
        n \in (SlugLimit - 1)..(SlugLimit + 2), c \in {"b", " ", "-"}}

Titles == ShortTitles \cup LongTitles

\* safe_name = make_unix_safe_filename(title) is about to be evaluated for
\* some title.
SlugInit ==
    /\ dir = [p \in {PathOf(InitialStems[d], "pdf") : d \in Docs} |->
                 PdfFile(CHOOSE d \in Docs : InitialStems[d] = p.stem)]
    /\ pages = [d \in Docs |-> 1]
    /\ max_action = 0
    /\ skip_action2 = FALSE
    /\ pc = "make_unix_safe_filename"
    /\ unprocessed_pdfs = <<>>
    /\ idx = 1
    /\ successful = 0
    /\ failed = 0
    /\ pdf_path = None
    /\ image_paths = <<>>
    /\ title \in {Just(t) : t \in Titles}
    /\ description = None
    /\ category = None
    /\ tags = None
    /\ renamed_image_paths = <<>>
    /\ updated_pdf_path = None
    /\ safe_name = <<>>
    /\ ingredients_image_path = None
    /\ instructions_image_path = None
    /\ instructions = None
    /\ ingredients = None
    /\ recipe_json = None
    /\ outcome = "none"
    /\ doc = 0
    /\ invoked = {}
    /\ calls = <<>>
    /\ last_response = NoResponse
    /\ rename_failed = FALSE
    /\ aborted_by = "none"
    /\ args = Args(DefaultArgs, {}, <<>>)
    /\ default_config = Just(DefaultArgs)
    /\ action_configs = BuildActionConfigs(args)
    /\ resolved = None

\* safe_name = make_unix_safe_filename(title)
MakeUnixSafeFilename ==
    /\ pc = "make_unix_safe_filename"
    /\ safe_name' = make_unix_safe_filename(title.val)
    /\ pc' = "slug_made"
    /\ UNCHANGED <<dir, config, batch, pdf_path, image_paths, title, description,
                   category, tags, renamed_image_paths, updated_pdf_path,
                   ingredients_image_path, instructions_image_path, instructions,
                   ingredients, recipe_json, outcome, history>>

SlugNext == MakeUnixSafeFilename

SlugSpec == SlugInit /\ [][SlugNext]_vars

\* ------------------------------------------------------ main's configuration
\* The sets of actions that get options of their own on the command line.
OverriddenSets == {T \in SUBSET ActionNumbers : Cardinality(T) <= MaxOverridden}

\* parse_args has returned, with the default options as argparse has them or
\* given and with options for the actions of one of OverriddenSets; nothing is
\* built yet.
ConfigInit ==
    /\ dir = [p \in {PathOf(InitialStems[d], "pdf") : d \in Docs} |->
                 PdfFile(CHOOSE d \in Docs : InitialStems[d] = p.stem)]
    /\ pages = [d \in Docs |-> 1]
    /\ max_action = 0
    /\ skip_action2 = FALSE
    /\ pc = "main"
    /\ unprocessed_pdfs = <<>>
    /\ idx = 1
    /\ successful = 0
    /\ failed = 0
    /\ pdf_path = None
    /\ image_paths = <<>>
    /\ title = None
    /\ description = None
    /\ category = None
    /\ tags = None
    /\ renamed_image_paths = <<>>
    /\ updated_pdf_path = None
    /\ safe_name = <<>>
    /\ ingredients_image_path = None
    /\ instructions_image_path = None
    /\ instructions = None
    /\ ingredients = None
    /\ recipe_json = None
    /\ outcome = "none"
    /\ doc = 0
    /\ invoked = {}
    /\ calls = <<>>
    /\ last_response = NoResponse
    /\ rename_failed = FALSE
    /\ aborted_by = "none"
    /\ \E d \in {DefaultArgs, CustomArgs}, S \in OverriddenSets :
          \E shapes \in [S -> Shapes] : args = Args(d, S, shapes)
    /\ default_config = None
    /\ action_configs = <<>>
    /\ resolved = None

\* Lines 856-900 of main: the default configuration, the configurations of
\* the actions, and the processor that keeps both.
main ==
    /\ pc = "main"
    /\ default_config' = Just(OpenAIConfig(args.api_key, args.base_url, args.model))
    /\ action_configs' = BuildActionConfigs(args)
    /\ pc' = "process_all"
    /\ UNCHANGED <<dir, pages, max_action, skip_action2, args, resolved, batch,
                   pdf_path, image_paths, locals, outcome, history>>

\* config = self._get_config_for_action(k), as each of Actions 1-4 starts with,
\* for any document and any k.
GetConfigForAction ==
    /\ pc = "process_all"
    /\ \E k \in ActionNumbers :
          resolved' = Just([action_number |-> k,
                            config |-> get_config_for_action(
                                           action_configs, default_config.val, k)])
    /\ UNCHANGED <<dir, pages, max_action, skip_action2, args, default_config,
                   action_configs, pc, batch, pdf_path, image_paths, locals,
                   outcome, history>>

ConfigNext == main \/ GetConfigForAction

ConfigSpec == ConfigInit /\ [][ConfigNext]_vars

\* ------------------------------------------------------------- properties
\* process_pdf has returned, or raised, for the document at idx.
Returned == pc = "tally"

\* The files of the directory that are pages rasterized in this iteration.
PagesOfRun == {p \in DOMAIN dir : dir[p].kind = "page" /\ dir[p].run = idx}

\* The crops written in this iteration.
CropsOfRun == {p \in DOMAIN dir : dir[p].kind = "crop" /\ dir[p].run = idx}

\* The records written in this iteration.
RecordsOfRun == {p \in DOMAIN dir : dir[p].kind = "json" /\ dir[p].run = idx}

\* C1: if the pipeline hard-fails after rasterization succeeded, then when
\* process_pdf returns none of the images rasterized for the document remain
\* in the directory, also when Action 1 had renamed them.
C1_HardFailureRemovesImages ==
    (Returned /\ outcome = "False" /\ image_paths # <<>> /\ aborted_by = "action_2")
        => PagesOfRun = {}

\* C2: if a rename fails in Action 1 the document is a hard failure: no later
\* action (2, 3, 4, 5) is invoked for it and no record is written.
C2_RenameFailureIsFatal ==
    rename_failed =>
        /\ invoked \subseteq {1}
        /\ recipe_json = None
        /\ RecordsOfRun = {}

\* C3: after Action 1 returns, every image path and the document path handed
\* to Actions 2-5, every image src of the record and the stem of the record's
\* file name a file that is in the directory under that name.
C3_NoStalePath ==
    /\ pc \in {"action_2", "action_3", "action_4", "action_5"} =>
          /\ \A i \in 1..Len(renamed_image_paths) : Exists(dir, renamed_image_paths[i])
          /\ Exists(dir, updated_pdf_path)
    /\ (Returned /\ outcome = "True") =>
          /\ \A i \in 1..Len(recipe_json.val.images) :
                Exists(dir, recipe_json.val.images[i].src)
          /\ \A p \in RecordsOfRun : Exists(dir, PathOf(p.stem, "pdf"))

\* The answer to Action 2 holds a usable pair of boxes: the call did not fail,
\* the text between the first "{" and the last "}" parses to an object with
\* both keys, and both boxes can be cropped.
UsableBoxes(r) ==
    /\ ~r.raises
    /\ LET content == StripContent(r.content)
           object == json_loads(Slice(content, find(content, "{"),
                                      rfind(content, "}") + 1))
       IN  /\ find(content, "{") # -1
           /\ ~object.error
           /\ HasKey(object.val, "ingredients")
           /\ HasKey(object.val, "instructions")
           /\ ~CropRaises(Get(object.val, "ingredients", None))
           /\ ~CropRaises(Get(object.val, "instructions", None))

\* C4: when Action 2 is not skipped and its answer yields no usable boxes, the
\* document hard-fails: Actions 3, 4 and 5 are not invoked, no record is
\* written and process_pdf reports failure.
C4_Action2FailureIsHard ==
    (last_response.action = 2 /\ ~UsableBoxes(Responses2[last_response.index])) =>
        /\ Returned
        /\ outcome = "False"
        /\ invoked \cap {3, 4, 5} = {}
        /\ recipe_json = None
        /\ RecordsOfRun = {}

\* C4, witness: the answer held only the ingredients box; the document
\* hard-failed after that crop was written.
C4_Witness ==
    /\ Returned
    /\ outcome = "False"
    /\ last_response.action = 2
    /\ ~UsableBoxes(Responses2[last_response.index])
    /\ CropsOfRun # {}

\* The answer to Action 2 parses and one of its boxes has right <= left or
\* bottom <= top.
HasBadBox(r) ==
    /\ ~r.raises
    /\ LET content == StripContent(r.content)
           object == json_loads(Slice(content, find(content, "{"),
                                      rfind(content, "}") + 1))
       IN  /\ find(content, "{") # -1
           /\ ~object.error
           /\ \E i \in 1..Len(object.val) :
                 \/ object.val[i].value.right <= object.val[i].value.left
                 \/ object.val[i].value.bottom <= object.val[i].value.top

\* C5: a box with right <= left or bottom <= top is rejected before any crop:
\* neither crop is written and the document hard-fails.
C5_BadBoxWritesNoCrop ==
    (last_response.action = 2 /\ HasBadBox(Responses2[last_response.index])) =>
        /\ CropsOfRun = {}
        /\ Returned
        /\ outcome = "False"

\* C6: when Action 2 ran and succeeded, Action 3 sends the instructions crop to
\* the model and Action 4 the ingredients crop; the full page is sent only when
\* Action 2 was skipped.
C6_CropsAreRead ==
    \A k \in 1..Len(calls) :
        /\ (calls[k].action = 3 /\ ~skip_action2) =>
              (calls[k].data.kind = "crop" /\ calls[k].data.region = "instructions")
        /\ (calls[k].action = 4 /\ ~skip_action2) =>
              (calls[k].data.kind = "crop" /\ calls[k].data.region = "ingredients")
        /\ (calls[k].action \in {3, 4} /\ skip_action2) =>
              calls[k].data.kind = "page"

\* The page Actions 3 and 4 are to read when Action 2 is skipped: the second
\* page of the document if it has one, else the first.
FullPage == PageFile(doc, IF pages[doc] >= 2 THEN 2 ELSE 1, idx)

\* C7: with skip_action2 set, no Action 2 model call is made, no crop is
\* created, Actions 3 and 4 read the full second page (the first of a one-page
\* document) and Action 2 never makes the document fail.
C7_SkipAction2 ==
    skip_action2 =>
        /\ 2 \notin invoked
        /\ \A k \in 1..Len(calls) : calls[k].action # 2
        /\ \A p \in DOMAIN dir : dir[p].kind # "crop"
        /\ \A k \in 1..Len(calls) :
              calls[k].action \in {3, 4} => calls[k].data = FullPage
        /\ aborted_by # "action_2"

\* C7, witness: under skip_action2 a document of two or more pages went
\* through Actions 1, 3 and 4 and got its record.
C7_Witness ==
    /\ skip_action2
    /\ Returned
    /\ outcome = "True"
    /\ pages[doc] >= 2
    /\ Len(calls) = 3

\* C8: with max_action = N in 1..4 no action numbered above N is invoked and
\* no record is written; with N = 5 or no max_action the setting never halts
\* the pipeline.
C8_MaxAction ==
    /\ max_action \in 1..4 =>
          /\ \A a \in invoked : a <= max_action
          /\ \A k \in 1..Len(calls) : calls[k].action <= max_action
          /\ recipe_json = None
          /\ \A p \in DOMAIN dir : dir[p].kind # "json"
    /\ max_action \in {0, 5} => aborted_by # "max_action"

\* C8, witness: max_action = 3 halted a document after Action 3 ran.
C8_Witness ==
    /\ max_action = 3
    /\ Returned
    /\ outcome = "False"
    /\ 3 \in invoked
    /\ aborted_by = "max_action"

\* The answer to Action 3 is empty text: nothing but whitespace.
NoInstructionText(r) ==
    ~r.raises /\ \A k \in 1..Len(r.content) : IsSpace(r.content[k].v)

\* The answer to Action 4 holds no JSON array, or a malformed one.
NoIngredientArray(r) ==
    /\ ~r.raises
    /\ LET content == StripContent(r.content)
       IN  \/ find(content, "[") = -1
           \/ json_loads(Slice(content, find(content, "["),
                               rfind(content, "]") + 1)).error

\* max_action lets the pipeline reach Action 5.
NotHalted == max_action \in {0, 5}

\* C9: an Action 3 or Action 4 answer with nothing usable never aborts the
\* document: the pipeline goes on to the following actions, a record is
\* written, and its instructions (resp. ingredients) are the empty list.
C9_SoftFailureContinues ==
    /\ (last_response.action = 3 /\ NoInstructionText(Responses3[last_response.index])) =>
          /\ Falsy(instructions)
          /\ aborted_by \in {"none", "max_action"}
          /\ NotHalted => pc = "action_4"
    /\ (last_response.action = 4 /\ NoIngredientArray(Responses4[last_response.index])) =>
          /\ Falsy(ingredients)
          /\ aborted_by \in {"none", "max_action"}
          /\ NotHalted => (pc = "action_5" \/ (Returned /\ outcome = "True"))
    /\ (NotHalted /\ Returned /\ \E k \in 1..Len(calls) : calls[k].action = 3) =>
          /\ outcome = "True"
          /\ RecordsOfRun # {}
          /\ Falsy(instructions) => recipe_json.val.instructions = <<>>
          /\ Falsy(ingredients) => recipe_json.val.ingredients = <<>>

\* C9, witness: Action 3 got only whitespace, Action 4 a malformed array, and
\* the record was written with both lists empty.
C9_Witness ==
    /\ Returned
    /\ outcome = "True"
    /\ instructions = None
    /\ last_response.action = 4
    /\ NoIngredientArray(Responses4[last_response.index])
    /\ recipe_json.val.instructions = <<>>
    /\ recipe_json.val.ingredients = <<>>

\* C10: if Action 1 recovers no title the pipeline continues, and the record
\* has the original document stem as its name, category Dinner, an empty
\* description and no tags, and is written as {originalStem}.json.
C10_TitleSoftFailure ==
    /\ (invoked = {1} /\ last_response.action = 1 /\ Falsy(title)
            /\ ~MaxActionBelow(2)) =>
          \/ pc = "action_2"
          \/ skip_action2 /\ (pc = "action_3" \/ aborted_by = "max_action")
    /\ (Returned /\ outcome = "True" /\ Falsy(title)) =>
          /\ recipe_json.val.name = pdf_path.stem
          /\ recipe_json.val.category = "Dinner"
          /\ recipe_json.val.description = <<>>
          /\ recipe_json.val.tags = <<>>
          /\ RecordsOfRun = {PathOf(pdf_path.stem, "json")}

\* C10, witness: Action 1 got an object with no title and the record of the
\* document was written.
C10_Witness ==
    /\ Returned
    /\ outcome = "True"
    /\ title = None
    /\ ~rename_failed
    /\ RecordsOfRun # {}

\* C11: for each document the model is called at most once per action and the
\* calls are made in strictly increasing action order 1, 2, 3, 4; no call is
\* made for Action 5.
C11_OneCallPerAction ==
    /\ \A k \in 1..Len(calls) : calls[k].action \in 1..4
    /\ \A j, k \in 1..Len(calls) : j < k => calls[j].action < calls[k].action
    /\ \A k \in 1..Len(calls) : calls[k].action \in invoked
    /\ (Returned /\ outcome = "True") => (5 \in invoked /\ Len(calls) <= 4)

\* C11, witness: a document went through all five actions with four calls,
\* the one of Action 3 having failed.
C11_Witness ==
    /\ Returned
    /\ outcome = "True"
    /\ invoked = 1..5
    /\ Len(calls) = 4
    /\ instructions = None

\* The answer the last model call got, if it was one of Action a.
LastAnswer ==
    CASE last_response.action = 1 -> Responses1[last_response.index]
      [] last_response.action = 2 -> Responses2[last_response.index]
      [] last_response.action = 3 -> Responses3[last_response.index]
      [] last_response.action = 4 -> Responses4[last_response.index]
      [] OTHER -> [raises |-> FALSE, content |-> <<>>]

\* C12: if a model call raises in any of Actions 1-4, the remaining actions
\* are not run for the document: process_pdf returns without a record and no
\* action after the one whose call raised was entered.
C12_FailedCallAborts ==
    LastAnswer.raises =>
        /\ Returned
        /\ outcome = "False"
        /\ \A a \in invoked : a <= last_response.action
        /\ recipe_json = None

\* process_all has gone through its whole list.
BatchDone == pc = "done"

\* C13: after a run of process_all, whatever the outcome of each document, a
\* second run finds nothing to process: find_unprocessed_pdfs returns the
\* empty list.
C13_SecondRunFindsNothing ==
    BatchDone => find_unprocessed_pdfs(dir) = {}

\* The documents eligible when the run starts.
EligibleAtStart == {PathOf(InitialStems[d], "pdf") : d \in Docs}

\* Where process_all is in its list: idx - 1 documents are tallied, and the
\* document being processed is the idx-th of the list.
InOrder ==
    /\ pc # "find_unprocessed_pdfs" =>
          /\ Range(unprocessed_pdfs) = EligibleAtStart
          /\ Len(unprocessed_pdfs) = Cardinality(EligibleAtStart)
    /\ idx \in 1..(Len(unprocessed_pdfs) + 1)
    /\ successful + failed = idx - 1
    /\ pdf_path # None => pdf_path = unprocessed_pdfs[idx]
    /\ BatchDone =>
          /\ idx = Len(unprocessed_pdfs) + 1
          /\ successful + failed = Len(unprocessed_pdfs)

\* process_all moves through its list one document at a time, whatever the
\* outcome, and never changes the list.
OneAtATime ==
    /\ pc # "find_unprocessed_pdfs" => unprocessed_pdfs' = unprocessed_pdfs
    /\ idx' # idx =>
          /\ pc = "tally"
          /\ outcome \in {"True", "False", "raise"}
          /\ idx' = idx + 1
          /\ successful' + failed' = successful + failed + 1

\* C14: process_all attempts every document eligible at the start exactly
\* once, in list order, whether or not earlier documents failed or raised; it
\* terminates, and then successful + failed is the number of eligible
\* documents.
C14_EveryDocumentOnce ==
    /\ []InOrder
    /\ [][OneAtATime]_vars
    /\ <>BatchDone

\* C14, witness: the batch is over with one document that succeeded and one
\* that failed.
C14_Witness ==
    /\ BatchDone
    /\ successful = 1
    /\ failed = 1

\* Action 1 renamed the files of the document and Action 2 then made
\* analyze_images_with_actions return None.
RenamedThenAction2Failed ==
    /\ Returned
    /\ aborted_by = "action_2"
    /\ ~Falsy(title)

RecordFiles == {p \in DOMAIN dir : dir[p].kind = "json"}

\* A step leaves every record file in place with what it holds.
RecordsKept ==
    \A p \in RecordFiles : p \in DOMAIN dir' /\ dir'[p] = dir[p]

\* C16: a record file, once written, is never modified or overwritten by the
\* processing of another document, so after the batch there are as many
\* record files as documents counted successful, also when two documents
\* get the same slug.
C16_OneRecordPerDocument ==
    /\ [][RecordsKept]_vars
    /\ [](BatchDone => Cardinality(RecordFiles) = successful)

\* The slug has been computed from title.
SlugMade == pc = "slug_made"

\* Lower-case letters and digits.
LowerAlnum == Range(LowerChars) \cup OtherLower \cup Range(DigitChars)

\* Something of the title survives when hyphens and every character that is
\* not a letter, a digit or an underscore are dropped and underscores are
\* trimmed from the ends.
SomethingSurvives(t) ==
    \E i \in 1..Len(t) : IsWordChar(t[i]) /\ t[i] # "_"

\* C17: for any title the slug is never empty, has at most 50 characters and
\* holds only lower-case letters, digits and underscores (hyphens and every
\* other character stripped); it is "unknown_recipe" when nothing survives.
C17_SlugAlphabet ==
    SlugMade =>
        /\ safe_name # <<>>
        /\ Len(safe_name) <= 50
        /\ \A i \in 1..Len(safe_name) : safe_name[i] \in LowerAlnum \cup {"_"}
        /\ ~SomethingSurvives(title.val) => safe_name = UnknownRecipe

\* Action 1 has just returned a title, having renamed the files, and the
\* pipeline goes on.
Action1Succeeded ==
    /\ pc = "action_2"
    /\ last_response.action = 1
    /\ ~Falsy(title)

\* The image names the document is to have after Action 1: {slug}.jpg for one
\* page, {slug}_page1.jpg .. {slug}_pageN.jpg for N > 1.
SlugImages(slug, n) ==
    [i \in 1..n |->
        IF n = 1 THEN [stem |-> slug, ext |-> "jpg"]
        ELSE [stem |-> slug \o <<"_", "p", "a", "g", "e", DigitChars[i]>>,
              ext |-> "jpg"]]

\* C18: after a successful Action 1 on a document of N page images, its
\* images are exactly {slug}.jpg (N = 1) or {slug}_page1.jpg ..
\* {slug}_pageN.jpg (N > 1) in page order, no image remains under a name it
\* had before, and the document is {slug}.pdf.
C18_RenamedImages ==
    Action1Succeeded =>
        LET slug == make_unix_safe_filename(title.val)
            n == Len(image_paths)
            expected == SlugImages(slug, n)
        IN  /\ n = pages[doc]
            /\ renamed_image_paths = expected
            /\ PagesOfRun = Range(expected)
            /\ \A i \in 1..n : dir[expected[i]] = PageFile(doc, i, idx)
            /\ \A i \in 1..n :
                  image_paths[i] \notin Range(expected) => ~Exists(dir, image_paths[i])
            /\ updated_pdf_path = [stem |-> slug, ext |-> "pdf"]
            /\ Exists(dir, updated_pdf_path)
            /\ dir[updated_pdf_path] = PdfFile(doc)
            /\ pdf_path # updated_pdf_path => ~Exists(dir, pdf_path)

\* C18, witness: a document of three pages was renamed from a to so.
C18_Witness ==
    /\ Action1Succeeded
    /\ Len(image_paths) = 3
    /\ pdf_path.stem = <<"a">>
    /\ safe_name = <<"s", "o">>
    /\ Exists(dir, PathOf(<<"s", "o">> \o PageSuffix(3), "jpg"))

\* process_pdf has written the record of a document whose title Action 1
\* recovered.
TitledRecordWritten ==
    /\ Returned
    /\ outcome = "True"
    /\ ~Falsy(title)

\* The names a record's image entry may reference for a two-page document:
\* {slug}.jpg for the first page and {slug}_page2.jpg for the second, or a
\* crop cut from them.
TwoPageReferences(slug) ==
    << {[stem |-> slug, ext |-> "jpg"],
        CropName(slug, IngredientsChars), CropName(slug, InstructionsChars)},
       {[stem |-> slug \o <<"_", "p", "a", "g", "e", "2">>, ext |-> "jpg"],
        CropName(slug, IngredientsChars), CropName(slug, InstructionsChars)} >>

\* C19: every record has servings 4 and defaultDuration 2, is stored as
\* {slug}.json for the slug of the extracted title, and has one image entry
\* per page of the document; for a two-page document the two entries
\* reference {slug}.jpg and {slug}_page2.jpg or crops of them.
C19_RecordShape ==
    TitledRecordWritten =>
        LET slug == make_unix_safe_filename(title.val)
            recipe == recipe_json.val
        IN  /\ recipe.servings = 4
            /\ recipe.defaultDuration = 2
            /\ RecordsOfRun = {[stem |-> slug, ext |-> "json"]}
            /\ Len(recipe.images) = pages[doc]
            /\ pages[doc] = 2 =>
                  \A i \in 1..2 : recipe.images[i].src \in TwoPageReferences(slug)[i]

\* C19, with the names the code gives: every record has servings 4 and
\* defaultDuration 2 and one image entry per page; with a title it is stored
\* as {slug}.json next to {slug}.pdf and its entries reference {slug}.jpg
\* (one page) or {slug}_page1.jpg .. {slug}_pageN.jpg (N > 1), never a crop;
\* without a title it is stored as {originalStem}.json and references the
\* images under the names they were rasterized to.
C19_RecordShapeAsNamed ==
    (Returned /\ outcome = "True") =>
        LET recipe == recipe_json.val
            n == pages[doc]
        IN  /\ recipe.servings = 4
            /\ recipe.defaultDuration = 2
            /\ Len(recipe.images) = n
            /\ IF Falsy(title)
               THEN /\ RecordsOfRun = {[stem |-> pdf_path.stem, ext |-> "json"]}
                    /\ \A i \in 1..n : recipe.images[i].src = image_paths[i]
               ELSE LET slug == make_unix_safe_filename(title.val)
                    IN  /\ RecordsOfRun = {[stem |-> slug, ext |-> "json"]}
                        /\ Exists(dir, [stem |-> slug, ext |-> "pdf"])
                        /\ \A i \in 1..n :
                              recipe.images[i].src = SlugImages(slug, n)[i]

\* C19, witness: the record of a two-page document titled "So" is so.json
\* and references so_page1.jpg and so_page2.jpg.
C19_Witness ==
    /\ TitledRecordWritten
    /\ pages[doc] = 2
    /\ Exists(dir, PathOf(<<"s", "o">>, "json"))
    /\ recipe_json.val.images =
          << [src |-> PathOf(<<"s", "o">> \o PageSuffix(1), "jpg")],
             [src |-> PathOf(<<"s", "o">> \o PageSuffix(2), "jpg")] >>

\* The six categories a record may have.
Categories == {"Breakfast", "Lunch", "Dinner", "Snack", "Dessert", "Appetizer"}

\* The category member of the object in an answer to Action 1, "" when the
\* object has none; defined for an answer that holds an object.
ReturnedCategory(r) ==
    LET content == StripContent(r.content)
        object == json_loads(Slice(content, find(content, "{"),
                                   rfind(content, "}") + 1))
    IN  Get(object.val, "category", "")

\* The answer to Action 1 holds a JSON object with a title.
HoldsTitledObject(r) ==
    /\ ~r.raises
    /\ LET content == StripContent(r.content)
       IN  /\ find(content, "{") # -1
           /\ ~json_loads(Slice(content, find(content, "{"),
                                rfind(content, "}") + 1)).error
           /\ HasKey(json_loads(Slice(content, find(content, "{"),
                                      rfind(content, "}") + 1)).val, "title")

\* C20: the category of every written record is one of Breakfast, Lunch,
\* Dinner, Snack, Dessert, Appetizer; a value of the model outside the list
\* (missing, empty, wrong case, not a string) becomes Dinner, on every path,
\* also when Action 1 recovered no title.
C20_CategoryCoerced ==
    /\ (last_response.action = 1 /\ pc # "action_1") =>
          /\ category # None
          /\ category.val \in Categories
          /\ Falsy(title) => category.val = "Dinner"
          /\ (HoldsTitledObject(LastAnswer) /\ ~Falsy(title)) =>
                category.val =
                    IF ReturnedCategory(LastAnswer) \in Categories
                    THEN ReturnedCategory(LastAnswer) ELSE "Dinner"
    /\ pc \in {"action_2", "action_3", "action_4", "action_5"} =>
          (category # None /\ category.val \in Categories)
    /\ (Returned /\ outcome = "True") =>
          /\ recipe_json.val.category \in Categories
          /\ recipe_json.val.category = category.val

\* C20, witness: a record with category Dinner was written for a document
\* titled So, whose answer had a category outside the list or none.
C20_Witness ==
    /\ Returned
    /\ outcome = "True"
    /\ title = Just(<<"S", "o">>)
    /\ recipe_json.val.category = "Dinner"

\* convert_pdf_to_images returned the empty list and process_pdf returned
\* False at once.
RasterizationFailed ==
    /\ Returned
    /\ image_paths = <<>>
    /\ invoked = {}

\* C21: if the rasterization of a document fails, at whatever page, no action
\* is invoked, no record is written, process_pdf reports failure and no image
\* rasterized for the document in this run remains in the directory.
C21_RasterizationFailure ==
    RasterizationFailed =>
        /\ calls = <<>>
        /\ recipe_json = None
        /\ RecordsOfRun = {}
        /\ outcome = "False"
        /\ PagesOfRun = {}

\* main has built the processor.
Configured == pc = "process_all"

\* The configuration action k is to get when every option given for it
\* counts, the empty string too.
AsGiven(a, k) ==
    [f \in Fields |->
        IF a.action[k][f] = [none |-> TRUE] THEN a[f] ELSE a.action[k][f].val]

\* C22: the configuration resolved for action k is the default triple when no
\* option of k was given; otherwise the fields given for k have the given
\* values and the others the default values, whatever was given for the other
\* actions; and the configurations do not change once main has built them.
C22_ConfigResolved ==
    /\ [](resolved # None =>
            resolved.val.config = AsGiven(args, resolved.val.action_number))
    /\ [][Configured =>
            /\ default_config' = default_config
            /\ action_configs' = action_configs
            /\ args' = args]_vars

\* The configuration action k is to get when only the non-empty options given
\* for it count.
AsGivenNonEmpty(a, k) ==
    [f \in Fields |->
        IF a.action[k][f] = [none |-> TRUE] \/ a.action[k][f].val = ""
        THEN a[f] ELSE a.action[k][f].val]

\* C22, with the empty string counted as no option: the configuration
\* resolved for action k has, field by field, the non-empty value given for k
\* or else the default value, whatever was given for the other actions, and
\* the configurations do not change once main has built them.
C22_ConfigResolvedNonEmpty ==
    /\ [](resolved # None =>
            resolved.val.config = AsGivenNonEmpty(args, resolved.val.action_number))
    /\ [](Configured =>
            /\ default_config = Just([f \in Fields |-> args[f]])
            /\ \A k \in ActionNumbers :
                  get_config_for_action(action_configs, default_config.val, k)
                      = AsGivenNonEmpty(args, k))
    /\ [][Configured =>
            /\ default_config' = default_config
            /\ action_configs' = action_configs
            /\ args' = args]_vars

\* C22, witness: action 2 was given a model and an empty key, action 3 a base
\* URL, action 1 nothing; the configuration of action 2 was resolved.
C22_Witness ==
    /\ resolved # None
    /\ resolved.val.action_number = 2
    /\ args.action[1] = NoOverride
    /\ args.action[2].model = Just("model2")
    /\ args.action[2].api_key = Just("")
    /\ args.action[3].base_url = Just("url3")
    /\ resolved.val.config = OpenAIConfig(args.api_key, args.base_url, "model2")


\* Action 1 has returned and no later action has been entered.
Action1Returned ==
    /\ last_response.action = 1
    /\ invoked = {1}

\* The answer to Action 1 has text but no JSON object that parses between
\* its first "{" and its last "}".
NoParseableObject(r) ==
    /\ ~r.raises
    /\ LET content == StripContent(r.content)
       IN  /\ content # <<>>
           /\ \/ find(content, "{") = -1
              \/ json_loads(Slice(content, find(content, "{"),
                                  rfind(content, "}") + 1)).error

\* Action 1 gave the document or an image another name.
Action1Renamed ==
    \/ updated_pdf_path # pdf_path
    \/ renamed_image_paths # image_paths
    \/ ~Exists(dir, pdf_path)

\* C23: Action 1 renames the document and its images only when the answer
\* holds a JSON object, between its first "{" and its last "}", with a
\* non-empty title; after an answer with text but no parseable object nothing
\* is renamed, no title is returned and the original name and the default
\* metadata are used.
C23_RenameOnlyFromJsonTitle ==
    Action1Returned =>
        /\ Action1Renamed =>
              /\ HoldsTitledObject(LastAnswer)
              /\ ExtractMealTitle(LastAnswer) # None
        /\ NoParseableObject(LastAnswer) =>
              /\ Falsy(title)
              /\ ~Action1Renamed
              /\ dir[pdf_path] = PdfFile(doc)
              /\ safe_name = pdf_path.stem
              /\ description = Just(<<>>)
              /\ category = Just("Dinner")
              /\ tags = Just(<<>>)


\* The PDFs of the directory that hold the source of document d.
SourcesOf(d) == {p \in DOMAIN dir : p.ext = "pdf" /\ dir[p] = PdfFile(d)}

\* C24: the processing of a document never deletes or overwrites the file of
\* another one: at every moment of a batch and after it, every source PDF of
\* the start is in the directory, under its original name or under the slug
\* of its own title, also when two documents get the same slug or the slug of
\* one is the stem of another.
C24_SourcesKept ==
    \A d \in Docs :
        /\ SourcesOf(d) # {}
        /\ BatchDone =>
              \E p \in SourcesOf(d) :
                  \/ p.stem = InitialStems[d]
                  \/ \E i \in 1..Len(Responses1) :
                        /\ ExtractMealTitle(Responses1[i]) # None
                        /\ p.stem = make_unix_safe_filename(
                                        ExtractMealTitle(Responses1[i]).val.title)


\* The images in the directory that were made from the document PDF p holds.
ImagesOf(p) ==
    {q \in DOMAIN dir : q.ext = "jpg" /\ dir[q].doc = dir[p].doc}

\* The records in the directory written for the document PDF p holds.
RecordsOf(p) ==
    {q \in DOMAIN dir : q.ext = "json" /\ dir[q].doc = dir[p].doc}

\* C25: on the directory a batch leaves behind, find_unprocessed_pdfs returns
\* a PDF if and only if the directory has no image and no record of that
\* document; the image or record of another document whose name begins with
\* the stem of this one does not count.
C25_EligibleIffNoOwnArtifact ==
    BatchDone =>
        \A p \in DOMAIN dir :
            p.ext = "pdf" =>
                (p \in find_unprocessed_pdfs(dir)
                    <=> ImagesOf(p) = {} /\ RecordsOf(p) = {})

=============================================================================
